---- MODULE Spec2Model ----
(***************************************************************************)
(* create-joji-app: an interactive scaffolder for React + Vite + Tailwind  *)
(* projects.  The repository holds three variants of the command-line      *)
(* action:                                                                 *)
(*   "index.js"  src/index.js          one prompt, no loop, no install/git *)
(*   "part_000"  src/unnamed/part_000  synchronous, name loop, install, git*)
(*   "part_001"  src/unnamed/part_001  asynchronous (await / Promise.all)  *)
(* The variable version says which of them is running.                     *)
(*                                                                         *)
(* Strings the program inspects character by character (names, paths) are  *)
(* sequences of one-character strings; fixed texts are TLA+ strings.       *)
(***************************************************************************)
EXTENDS Naturals, Sequences, FiniteSets, TLC

VARIABLES
  version,      \* which variant of the action callback runs
  cliArg,       \* the optional [project-name] command-line argument
  fsDirs,       \* absolute paths that exist as directories on disk
  pc,           \* position of the action callback
  answers,      \* inquirer answers collected so far (question name -> value)
  lastPrompt,   \* the value last handed to a validate callback and its verdict
  projectPath,  \* the local variable projectPath (<<>> while unassigned)
  projDirs,     \* directories, relative to projectPath, the tool has ensured
  projFiles,    \* files, relative to projectPath, the tool has written
  inflight,     \* fs.writeFile promises started and not yet settled
  spinner,      \* per pipeline step: none / started / succeed / fail / warn
  cmds,         \* shell commands executed so far, with their outcome
  printed,      \* console lines printed so far
  thrown,       \* an error has propagated out of the action callback
  otherFiles    \* files another process has put into projectPath

vars == <<version, cliArg, fsDirs, pc, answers, lastPrompt, projectPath,
          projDirs, projFiles, inflight, spinner, cmds, printed, thrown,
          otherFiles>>

----------------------------------------------------------------------------
(* Bounds and enumerated inputs                                            *)

MaxNameLen == 2

Versions == {"index.js", "part_000", "part_001"}
LoopVersions == {"part_000", "part_001"}

\* characters a user may type at the project-name prompt
TypedChars == {"a", "z", "0", "9", "-", "_", "A", " ", ".", "/"}

RECURSIVE StringsUpTo(_, _)
StringsUpTo(chars, n) ==
  IF n = 0 THEN {<<>>}
  ELSE LET shorter == StringsUpTo(chars, n - 1)
       IN shorter \cup {Append(s, c) : s \in shorter, c \in chars}

\* every typed name of at most MaxNameLen characters
AllNameInputs == StringsUpTo(TypedChars, MaxNameLen)

\* typed names used when the whole pipeline is explored
NameInputs == {<<>>, <<"a">>, <<"z", "9">>, <<"A">>, <<"a", " ">>}

CliArgs == {<<>>, <<"a">>, <<"A">>}

LocationInputs == {<<>>, <<"\\", "w">>, <<"/", "v">>, <<"/", "n">>}

\* process.cwd() and the directories present before the tool runs
ProcessCwd == <<"/", "w">>
BaseDirs == {<<"/", "w">>, <<"/", "v">>}

----------------------------------------------------------------------------
(* Characters and the project-name regular expression                      *)

Ascii ==
  <<" ", "!", "\"", "#", "$", "%", "&", "'", "(", ")", "*", "+", ",", "-",
    ".", "/", "0", "1", "2", "3", "4", "5", "6", "7", "8", "9", ":", ";",
    "<", "=", ">", "?", "@", "A", "B", "C", "D", "E", "F", "G", "H", "I",
    "J", "K", "L", "M", "N", "O", "P", "Q", "R", "S", "T", "U", "V", "W",
    "X", "Y", "Z", "[", "\\", "]", "^", "_", "(backtick)", "a", "b", "c", "d", "e",
    "f", "g", "h", "i", "j", "k", "l", "m", "n", "o", "p", "q", "r", "s",
    "t", "u", "v", "w", "x", "y", "z", "{", "|", "}", "~">>

\* the character code of a printable ASCII character (32..126); the
\* backtick, which no input here contains, only holds its place in the table
CodeTable ==
  [c \in {Ascii[i] : i \in 1..Len(Ascii)} |->
     31 + (CHOOSE i \in 1..Len(Ascii) : Ascii[i] = c)]

Code(c) == CodeTable[c]

InRange(c, lo, hi) == Code(lo) <= Code(c) /\ Code(c) <= Code(hi)

\* a class read as a-z, 0-9 and the range 9-_ (the hyphen taken as a range
\* operator instead of a literal)
InNameClassHyphenRange(c) ==
  InRange(c, "a", "z") \/ InRange(c, "0", "9") \/ InRange(c, "9", "_")

\* the character class [a-z0-9-_]
InNameClass(c) ==
  InRange(c, "a", "z") \/ InRange(c, "0", "9") \/ c = "-" \/ c = "_"

\* /^[a-z0-9-_]+$/.test(input)
NameRegexTest(input) ==
  /\ Len(input) >= 1
  /\ \A i \in 1..Len(input) : InNameClass(input[i])

NameErrorText ==
  "Project name can only contain lowercase letters, numbers, hyphens, and underscores"
LocationErrorText ==
  "That directory does not exist. Please enter a valid path."

\* validate of the projectName question: "" stands for the return value true
ValidateName(input) ==
  IF NameRegexTest(input) THEN "" ELSE NameErrorText

\* input.replace(/\\/g, '/')
ReplaceBackslashes(s) ==
  [i \in 1..Len(s) |-> IF s[i] = "\\" THEN "/" ELSE s[i]]

\* fs.existsSync(p)
ExistsSync(p) == p \in fsDirs

\* path.join(a, b) for the paths that occur here (no "." or ".." segment,
\* no trailing separator)
PathJoin(a, b) == a \o <<"/">> \o b

\* validate of the projectLocation question
ValidateLocation(input) ==
  LET normalizedPath == ReplaceBackslashes(input)
  IN IF ExistsSync(normalizedPath) THEN "" ELSE LocationErrorText

\* default: projectName || 'my-react-app'
DefaultAppName == <<"m", "y", "-", "r", "e", "a", "c", "t", "-", "a", "p", "p">>
DefaultName == IF cliArg # <<>> THEN cliArg ELSE DefaultAppName

\* default: 'C:/Users/JojoW/Documents/Coding' (projectLocation question)
DefaultLocation ==
  <<"C", ":", "/", "U", "s", "e", "r", "s", "/", "J", "o", "j", "o", "W", "/",
    "D", "o", "c", "u", "m", "e", "n", "t", "s", "/", "C", "o", "d", "i", "n", "g">>

\* default: '/c/Users/JojoW/Documents/Coding' (projectPath question, index.js)
DefaultProjectPath ==
  <<"/", "c", "/", "U", "s", "e", "r", "s", "/", "J", "o", "j", "o", "W", "/",
    "D", "o", "c", "u", "m", "e", "n", "t", "s", "/", "C", "o", "d", "i", "n", "g">>

\* an input question hands the default to validate when nothing was typed
WithDefault(typed, default) == IF typed = <<>> THEN default ELSE typed

NoPrompt == [question |-> "none", input |-> <<>>, error |-> ""]

----------------------------------------------------------------------------
(* Generated content                                                       *)

Steps == {"structure", "packageJson", "configFiles", "sourceFiles",
          "install", "git"}

UseRouter == answers.useRouter

\* createProjectStructure with the useRouter test dropped
StructureDirsAlwaysPages ==
  <<".", "src", "src/components", "src/assets", "src/styles", "public",
    "src/pages">>

\* the directories createProjectStructure ensures, in call order; "." is
\* projectPath itself
StructureDirs ==
  <<".", "src", "src/components", "src/assets", "src/styles", "public">>
  \o (IF UseRouter THEN <<"src/pages">> ELSE <<>>)

\* createPackageJson with the router entry added unconditionally
DependenciesAlwaysRouter ==
  {<<"react", "^18.3.1">>, <<"react-dom", "^18.3.1">>,
   <<"react-router-dom", "^6.26.0">>}

\* the dependencies object of createPackageJson, as a set of <<name, version>>
Dependencies ==
  {<<"react", "^18.3.1">>, <<"react-dom", "^18.3.1">>}
  \cup (IF UseRouter THEN {<<"react-router-dom", "^6.26.0">>} ELSE {})

DevDependencies ==
  {<<"@vitejs/plugin-react", "^4.3.1">>, <<"autoprefixer", "^10.4.20">>,
   <<"postcss", "^8.4.41">>, <<"tailwindcss", "^3.4.10">>,
   <<"vite", "^5.4.1">>}

\* the object createPackageJson serialises with JSON.stringify
PackageJson ==
  [name |-> answers.projectName,
   private |-> TRUE,
   version |-> "0.1.0",
   type |-> "module",
   scripts |-> {<<"dev", "vite">>, <<"build", "vite build">>,
                <<"preview", "vite preview">>},
   dependencies |-> Dependencies,
   devDependencies |-> DevDependencies]

\* the mainJsx template with the router import and wrapper written
\* unconditionally
MainJsxAlwaysRouter ==
  <<"import { StrictMode } from 'react'",
    "import { createRoot } from 'react-dom/client'",
    "import { BrowserRouter } from 'react-router-dom'",
    "import './styles/index.css'",
    "import App from './App.jsx'",
    "",
    "createRoot(document.getElementById('root')).render(",
    "  <StrictMode>",
    "    <BrowserRouter>", "      <App />", "    </BrowserRouter>",
    "  </StrictMode>,", ")">>

\* the lines of the mainJsx template literal
MainJsx ==
  <<"import { StrictMode } from 'react'",
    "import { createRoot } from 'react-dom/client'",
    IF UseRouter THEN "import { BrowserRouter } from 'react-router-dom'" ELSE "",
    "import './styles/index.css'",
    "import App from './App.jsx'",
    "",
    "createRoot(document.getElementById('root')).render(",
    "  <StrictMode>">>
  \o (IF UseRouter
        THEN <<"    <BrowserRouter>", "      <App />", "    </BrowserRouter>">>
        ELSE <<"    <App />">>)
  \o <<"  </StrictMode>,", ")">>

ConfigFiles ==
  <<"vite.config.js", "tailwind.config.js", "postcss.config.js", ".gitignore">>

SourceFiles ==
  <<"index.html", "src/main.jsx", "src/App.jsx", "src/styles/index.css">>

\* what is written to file f: the template it comes from and the values
\* substituted into it
FileContent(f) ==
  CASE f = "package.json" ->
         [template |-> "packageJson", value |-> PackageJson, lines |-> <<>>]
    [] f = "index.html" ->
         [template |-> "indexHtml", value |-> answers.projectName, lines |-> <<>>]
    [] f = "src/App.jsx" ->
         [template |-> "appJsx", value |-> answers.projectName, lines |-> <<>>]
    [] f = "src/main.jsx" ->
         [template |-> "mainJsx", value |-> <<>>, lines |-> MainJsx]
    [] f = "src/styles/index.css" ->
         [template |-> "indexCss", value |-> <<>>, lines |-> <<>>]
    [] f = "vite.config.js" ->
         [template |-> "viteConfig", value |-> <<>>, lines |-> <<>>]
    [] f = "tailwind.config.js" ->
         [template |-> "tailwindConfig", value |-> <<>>, lines |-> <<>>]
    [] f = "postcss.config.js" ->
         [template |-> "postcssConfig", value |-> <<>>, lines |-> <<>>]
    [] f = ".gitignore" ->
         [template |-> "gitignore", value |-> <<>>, lines |-> <<>>]

\* the directory, relative to projectPath, that path.join(projectPath, f)
\* puts the file f in
ParentDir(f) ==
  CASE f \in {"src/main.jsx", "src/App.jsx"} -> "src"
    [] f = "src/styles/index.css" -> "src/styles"
    [] OTHER -> "."

GitCommands ==
  <<"git init", "git add .",
    "git commit -m \"Initial commit from create-joji-app\"">>

Range(seq) == {seq[i] : i \in 1..Len(seq)}
Prefix(seq, k) == {seq[i] : i \in 1..k}

\* the files named in fs written with their content, over what is there
WriteFiles(fs) == [f \in fs |-> FileContent(f)] @@ projFiles

----------------------------------------------------------------------------
(* Initial state                                                           *)

\* project directories that may be on disk before the tool starts
PreExisting ==
  {PathJoin(ProcessCwd, <<"a">>), PathJoin(ProcessCwd, DefaultAppName)}

Init ==
  /\ version \in Versions
  /\ cliArg \in CliArgs
  /\ \E S \in SUBSET PreExisting : fsDirs = BaseDirs \cup S
  /\ pc = IF version = "index.js" THEN "askAll" ELSE "askLocation"
  /\ answers = <<>>
  /\ lastPrompt = NoPrompt
  /\ projectPath = <<>>
  /\ projDirs = {}
  /\ projFiles = <<>>
  /\ inflight = {}
  /\ spinner = [s \in Steps |-> "none"]
  /\ cmds = <<>>
  /\ printed = {}
  /\ thrown = FALSE
  /\ otherFiles = {}

----------------------------------------------------------------------------
(* Prompts                                                                 *)

\* projectPath as the name loop computes it:
\* path.join(normalizedLocation, projectNameAnswer.projectName)
LoopProjectPath(location, name) ==
  PathJoin(ReplaceBackslashes(location), name)

\* projectPath as index.js computes it:
\* path.join(process.cwd(), answers.projectName)
IndexProjectPath(location, name) ==
  PathJoin(ProcessCwd, name)

CollisionLine(name) == <<"Directory already exists", name>>

\* the projectLocation question (part_000, part_001): an input that fails
\* validate is answered with the error text and asked again
AskLocation ==
  /\ pc = "askLocation"
  /\ \E typed \in LocationInputs :
       LET input == WithDefault(typed, DefaultLocation)
           error == ValidateLocation(input)
       IN /\ lastPrompt' = [question |-> "projectLocation",
                            input |-> input, error |-> error]
          /\ IF error = ""
               THEN /\ answers' = ("projectLocation" :> input) @@ answers
                    /\ pc' = "askName"
               ELSE UNCHANGED <<answers, pc>>
  /\ UNCHANGED <<otherFiles, version, cliArg, fsDirs, projectPath, projDirs, projFiles,
                 inflight, spinner, cmds, printed, thrown>>

\* the name loop with the existence check only printing its message:
\* nameIsValid is set whether or not the directory exists
AskNameNoRetry(inputs) ==
  /\ pc = "askName"
  /\ \E typed \in inputs :
       LET input == WithDefault(typed, DefaultName)
           error == ValidateName(input)
           path == LoopProjectPath(answers.projectLocation, input)
       IN /\ lastPrompt' = [question |-> "projectName",
                            input |-> input, error |-> error]
          /\ IF error # ""
               THEN UNCHANGED <<answers, projectPath, printed, pc>>
               ELSE /\ answers' = ("projectName" :> input) @@ answers
                    /\ projectPath' = path
                    /\ printed' = IF ExistsSync(path)
                                    THEN printed \cup {CollisionLine(input)}
                                    ELSE printed
                    /\ pc' = "askOthers"
  /\ UNCHANGED <<otherFiles, version, cliArg, fsDirs, projDirs, projFiles, inflight,
                 spinner, cmds, thrown>>

\* one iteration of while (!nameIsValid): the projectName question, then the
\* existence check of the joined path
AskName(inputs) ==
  /\ pc = "askName"
  /\ \E typed \in inputs :
       LET input == WithDefault(typed, DefaultName)
           error == ValidateName(input)
           path == LoopProjectPath(answers.projectLocation, input)
       IN /\ lastPrompt' = [question |-> "projectName",
                            input |-> input, error |-> error]
          /\ IF error # ""
               THEN UNCHANGED <<answers, projectPath, printed, pc>>
               ELSE /\ answers' = ("projectName" :> input) @@ answers
                    /\ projectPath' = path
                    /\ IF ExistsSync(path)
                         THEN /\ printed' = printed \cup {CollisionLine(input)}
                              /\ pc' = "askName"
                         ELSE /\ printed' = printed
                              /\ pc' = "askOthers"
  /\ UNCHANGED <<otherFiles, version, cliArg, fsDirs, projDirs, projFiles, inflight,
                 spinner, cmds, thrown>>

\* the useRouter and installNow confirm questions
AskOthers ==
  /\ pc = "askOthers"
  /\ \E useRouter \in BOOLEAN, installNow \in BOOLEAN :
       answers' = ("useRouter" :> useRouter) @@ ("installNow" :> installNow)
                  @@ answers
  /\ pc' = "structure"
  /\ UNCHANGED <<otherFiles, version, cliArg, fsDirs, lastPrompt, projectPath, projDirs,
                 projFiles, inflight, spinner, cmds, printed, thrown>>

\* index.js: the three questions of the single prompt, then the existence
\* check, which returns from the action on a collision
AskAll(inputs) ==
  /\ pc = "askAll"
  /\ \E typed \in inputs, typedPath \in LocationInputs, useRouter \in BOOLEAN :
       LET input == WithDefault(typed, DefaultName)
           error == ValidateName(input)
           location == WithDefault(typedPath, DefaultProjectPath)
           path == IndexProjectPath(location, input)
       IN /\ lastPrompt' = [question |-> "projectName",
                            input |-> input, error |-> error]
          /\ IF error # ""
               THEN UNCHANGED <<answers, projectPath, printed, pc>>
               ELSE /\ answers' = ("projectName" :> input)
                                  @@ ("projectPath" :> location)
                                  @@ ("useRouter" :> useRouter)
                    /\ projectPath' = path
                    /\ IF ExistsSync(path)
                         THEN /\ printed' = printed \cup {CollisionLine(input)}
                              /\ pc' = "exit"
                         ELSE /\ printed' = printed
                              /\ pc' = "structure"
  /\ UNCHANGED <<otherFiles, version, cliArg, fsDirs, projDirs, projFiles, inflight,
                 spinner, cmds, thrown>>

----------------------------------------------------------------------------
(* The creation pipeline                                                   *)

\* what a step reports when an fs call or command throws: index.js has no
\* try/catch and leaves its "Creating ..." line as the last word; the later
\* variants call spinner.fail
FailReport == IF version = "index.js" THEN "started" ELSE "fail"

\* the pipeline with installDependencies called whatever installNow is
AfterSourceFilesAlwaysInstall ==
  IF version = "index.js" THEN "success" ELSE "install"

\* the pipeline with initializeGit moved inside if (answers.installNow)
AfterSourceFilesGitInsideIf ==
  IF version = "index.js" THEN "success"
  ELSE IF answers.installNow THEN "install" ELSE "success"

\* the statement after createSourceFiles
AfterSourceFiles ==
  IF version = "index.js" THEN "success"
  ELSE IF answers.installNow THEN "install" ELSE "git"

\* the throw of a creation step leaves the action callback
Abort(step) ==
  /\ spinner' = [spinner EXCEPT ![step] = FailReport]
  /\ thrown' = TRUE
  /\ pc' = "failed"

Succeed(step, next) ==
  /\ spinner' = [spinner EXCEPT ![step] = "succeed"]
  /\ thrown' = thrown
  /\ pc' = next

\* createProjectStructure: the ensureDir calls run in order; the first k
\* succeed and, when k is short of the list, the next one throws
CreateProjectStructure ==
  /\ pc = "structure"
  /\ \E k \in 0..Len(StructureDirs) :
       /\ projDirs' = projDirs \cup Prefix(StructureDirs, k)
       /\ fsDirs' = IF k >= 1 THEN fsDirs \cup {projectPath} ELSE fsDirs
       /\ IF k = Len(StructureDirs)
            THEN Succeed("structure", "packageJson")
            ELSE Abort("structure")
  /\ UNCHANGED <<otherFiles, version, cliArg, answers, lastPrompt, projectPath, projFiles,
                 inflight, cmds, printed>>

\* createPackageJson: one write of the serialised object
CreatePackageJson ==
  /\ pc = "packageJson"
  /\ \E ok \in BOOLEAN :
       IF ok
         THEN /\ projFiles' = WriteFiles({"package.json"})
              /\ Succeed("packageJson", "configFiles")
         ELSE /\ projFiles' = projFiles
              /\ Abort("packageJson")
  /\ UNCHANGED <<otherFiles, version, cliArg, fsDirs, answers, lastPrompt, projectPath,
                 projDirs, inflight, cmds, printed>>

\* a step of writeFileSync calls in order (index.js, part_000): the first k
\* succeed and, when k is short of the list, the next one throws
WriteInOrder(step, files, next) ==
  /\ pc = step
  /\ version # "part_001"
  /\ \E k \in 0..Len(files) :
       /\ projFiles' = WriteFiles(Prefix(files, k))
       /\ IF k = Len(files) THEN Succeed(step, next) ELSE Abort(step)
  /\ UNCHANGED <<otherFiles, version, cliArg, fsDirs, answers, lastPrompt, projectPath,
                 projDirs, inflight, cmds, printed>>

CreateConfigFilesSync == WriteInOrder("configFiles", ConfigFiles, "sourceFiles")

CreateSourceFilesSync == WriteInOrder("sourceFiles", SourceFiles, AfterSourceFiles)

\* part_001: the step calls fs.writeFile four times while it builds the
\* array handed to Promise.all; all four writes are then in flight
StartWrites(step, files) ==
  /\ pc = step
  /\ version = "part_001"
  /\ spinner[step] = "none"
  /\ spinner' = [spinner EXCEPT ![step] = "started"]
  /\ inflight' = inflight \cup Range(files)
  /\ UNCHANGED <<otherFiles, version, cliArg, fsDirs, pc, answers, lastPrompt, projectPath,
                 projDirs, projFiles, cmds, printed, thrown>>

CreateConfigFilesStart == StartWrites("configFiles", ConfigFiles)

CreateSourceFilesStart == StartWrites("sourceFiles", SourceFiles)

\* a write in flight completes; it may do so after Promise.all has already
\* rejected, while the process is on its way out
WriteFileDone ==
  /\ \E f \in inflight :
       /\ projFiles' = WriteFiles({f})
       /\ inflight' = inflight \ {f}
  /\ UNCHANGED <<otherFiles, version, cliArg, fsDirs, pc, answers, lastPrompt, projectPath,
                 projDirs, spinner, cmds, printed, thrown>>

\* a write in flight fails: the first rejection rejects Promise.all and the
\* catch block rethrows; a rejection after that is not observed
WriteFileError ==
  /\ \E f \in inflight : inflight' = inflight \ {f}
  /\ IF pc \in {"configFiles", "sourceFiles"}
       THEN Abort(pc)
       ELSE UNCHANGED <<spinner, thrown, pc>>
  /\ UNCHANGED <<otherFiles, version, cliArg, fsDirs, answers, lastPrompt, projectPath,
                 projDirs, projFiles, cmds, printed>>

\* the step with Promise.race in place of Promise.all: it resolves as soon
\* as one of its writes has completed
ResolveWritesRace(step, next) ==
  /\ pc = step
  /\ version = "part_001"
  /\ spinner[step] = "started"
  /\ \E f \in DOMAIN projFiles :
       f \in (IF step = "configFiles" THEN {"vite.config.js",
                 "tailwind.config.js", "postcss.config.js", ".gitignore"}
              ELSE {"index.html", "src/main.jsx", "src/App.jsx",
                    "src/styles/index.css"})
  /\ Succeed(step, next)
  /\ UNCHANGED <<otherFiles, version, cliArg, fsDirs, answers, lastPrompt, projectPath,
                 projDirs, projFiles, inflight, cmds, printed>>

\* the step with the await on Promise.all dropped: it reports success and
\* returns while writes are still in flight
ResolveWritesNoAwait(step, next) ==
  /\ pc = step
  /\ version = "part_001"
  /\ spinner[step] = "started"
  /\ Succeed(step, next)
  /\ UNCHANGED <<otherFiles, version, cliArg, fsDirs, answers, lastPrompt, projectPath,
                 projDirs, projFiles, inflight, cmds, printed>>

\* Promise.all resolves once none of the step's writes is in flight
ResolveWrites(step, next) ==
  /\ pc = step
  /\ version = "part_001"
  /\ spinner[step] = "started"
  /\ inflight = {}
  /\ Succeed(step, next)
  /\ UNCHANGED <<otherFiles, version, cliArg, fsDirs, answers, lastPrompt, projectPath,
                 projDirs, projFiles, inflight, cmds, printed>>

CreateConfigFilesResolve == ResolveWrites("configFiles", "sourceFiles")

CreateSourceFilesResolve == ResolveWrites("sourceFiles", AfterSourceFiles)

\* installDependencies with a catch block that only reports, as the one of
\* initializeGit does
InstallDependenciesSwallow ==
  /\ pc = "install"
  /\ \E ok \in BOOLEAN :
       /\ cmds' = Append(cmds, [cmd |-> "npm install", ok |-> ok])
       /\ spinner' = [spinner EXCEPT
                        !["install"] = IF ok THEN "succeed" ELSE "fail"]
  /\ pc' = "git"
  /\ UNCHANGED <<otherFiles, version, cliArg, fsDirs, answers, lastPrompt, projectPath,
                 projDirs, projFiles, inflight, printed, thrown>>

\* installDependencies with a catch block that removes projectPath before
\* it rethrows
InstallDependenciesCleanup ==
  /\ pc = "install"
  /\ \E ok \in BOOLEAN :
       /\ cmds' = Append(cmds, [cmd |-> "npm install", ok |-> ok])
       /\ IF ok
            THEN /\ Succeed("install", "git")
                 /\ UNCHANGED <<fsDirs, projDirs, projFiles>>
            ELSE /\ Abort("install")
                 /\ fsDirs' = fsDirs \ {projectPath}
                 /\ projDirs' = {}
                 /\ projFiles' = <<>>
  /\ UNCHANGED <<otherFiles, version, cliArg, answers, lastPrompt, projectPath, inflight,
                 printed>>

\* installDependencies: npm install in projectPath
InstallDependencies ==
  /\ pc = "install"
  /\ \E ok \in BOOLEAN :
       /\ cmds' = Append(cmds, [cmd |-> "npm install", ok |-> ok])
       /\ IF ok THEN Succeed("install", "git") ELSE Abort("install")
  /\ UNCHANGED <<otherFiles, version, cliArg, fsDirs, answers, lastPrompt, projectPath,
                 projDirs, projFiles, inflight, printed>>

\* initializeGit with a catch block that rethrows like the other steps
InitializeGitRethrow ==
  /\ pc = "git"
  /\ \E k \in 0..Len(GitCommands) :
       /\ cmds' = cmds
            \o [i \in 1..k |-> [cmd |-> GitCommands[i], ok |-> TRUE]]
            \o (IF k < Len(GitCommands)
                  THEN <<[cmd |-> GitCommands[k + 1], ok |-> FALSE]>>
                  ELSE <<>>)
       /\ IF k = Len(GitCommands)
            THEN Succeed("git", "success")
            ELSE Abort("git")
  /\ UNCHANGED <<otherFiles, version, cliArg, fsDirs, answers, lastPrompt, projectPath,
                 projDirs, projFiles, inflight, printed>>

\* initializeGit: the first k commands succeed; when k is short of three the
\* next one throws into the catch block, which only warns
InitializeGit ==
  /\ pc = "git"
  /\ \E k \in 0..Len(GitCommands) :
       /\ cmds' = cmds
            \o [i \in 1..k |-> [cmd |-> GitCommands[i], ok |-> TRUE]]
            \o (IF k < Len(GitCommands)
                  THEN <<[cmd |-> GitCommands[k + 1], ok |-> FALSE]>>
                  ELSE <<>>)
       /\ spinner' = [spinner EXCEPT
                        !["git"] = IF k = Len(GitCommands) THEN "succeed"
                                   ELSE "warn"]
  /\ pc' = "success"
  /\ UNCHANGED <<otherFiles, version, cliArg, fsDirs, answers, lastPrompt, projectPath,
                 projDirs, projFiles, inflight, printed, thrown>>

\* the console lines after the pipeline
SuccessLines ==
  IF version = "index.js"
    THEN {<<"Project created successfully!", <<>>>>}
    ELSE {<<"Success! Your project is ready!", <<>>>>,
          <<"To get started:", <<>>>>,
          <<"cd", answers.projectName>>,
          <<"npm run dev", <<>>>>,
          <<"Happy coding", <<>>>>}
         \cup (IF ~answers.installNow THEN {<<"npm install", <<>>>>} ELSE {})

PrintSuccess ==
  /\ pc = "success"
  /\ printed' = printed \cup SuccessLines
  /\ pc' = "done"
  /\ UNCHANGED <<otherFiles, version, cliArg, fsDirs, answers, lastPrompt, projectPath,
                 projDirs, projFiles, inflight, spinner, cmds, thrown>>

----------------------------------------------------------------------------
(* The environment                                                         *)

\* what another process puts into the directory it creates
OtherProcessFiles == {"package.json", "notes.txt"}

\* another process creates the directory projectPath names, with files in
\* it, after the existence check found nothing there and before
\* createProjectStructure gets to it
OtherProcessCreates ==
  /\ pc \in {"askOthers", "structure"}
  /\ projectPath \notin fsDirs
  /\ otherFiles = {}
  /\ fsDirs' = fsDirs \cup {projectPath}
  /\ otherFiles' = OtherProcessFiles
  /\ UNCHANGED <<version, cliArg, pc, answers, lastPrompt, projectPath,
                 projDirs, projFiles, inflight, spinner, cmds, printed, thrown>>

----------------------------------------------------------------------------
(* Specifications                                                          *)

Next ==
  \/ AskLocation
  \/ AskName(NameInputs)
  \/ AskOthers
  \/ AskAll(NameInputs)
  \/ CreateProjectStructure
  \/ CreatePackageJson
  \/ CreateConfigFilesSync
  \/ CreateSourceFilesSync
  \/ CreateConfigFilesStart
  \/ CreateSourceFilesStart
  \/ WriteFileDone
  \/ WriteFileError
  \/ CreateConfigFilesResolve
  \/ CreateSourceFilesResolve
  \/ InstallDependencies
  \/ InitializeGit
  \/ PrintSuccess
  \/ OtherProcessCreates

Spec == Init /\ [][Next]_vars

\* the name question when it is first asked, over every typed name of at
\* most MaxNameLen characters
FirstAsk == lastPrompt.question # "projectName"

AskNameFirst == FirstAsk /\ AskName(AllNameInputs)

AskAllFirst == FirstAsk /\ AskAll(AllNameInputs)

NextPrompt ==
  \/ AskLocation
  \/ AskNameFirst
  \/ AskAllFirst

SpecPrompt == Init /\ [][NextPrompt]_vars

TypeOK ==
  /\ version \in Versions
  /\ pc \in {"askAll", "askLocation", "askName", "askOthers", "exit", "failed",
             "success", "done"} \cup Steps
  /\ projDirs \subseteq {".", "src", "src/components", "src/assets",
                         "src/styles", "public", "src/pages"}
  /\ inflight \subseteq Range(ConfigFiles) \cup Range(SourceFiles)
  /\ thrown \in BOOLEAN

----------------------------------------------------------------------------
(* Vocabulary of the properties                                            *)

LowercaseLetters ==
  {"a", "b", "c", "d", "e", "f", "g", "h", "i", "j", "k", "l", "m", "n", "o",
   "p", "q", "r", "s", "t", "u", "v", "w", "x", "y", "z"}
Digits == {"0", "1", "2", "3", "4", "5", "6", "7", "8", "9"}

\* a non-empty string of lowercase letters, digits, hyphens and underscores
IsPlainName(s) ==
  /\ s # <<>>
  /\ \A i \in 1..Len(s) : s[i] \in LowercaseLetters \cup Digits \cup {"-", "_"}

Asked(q) == q \in DOMAIN answers

Ran(cmd) == \E i \in 1..Len(cmds) : cmds[i].cmd = cmd

IsGit(c) == c.cmd \in Range(GitCommands)
GitRun == SelectSeq(cmds, IsGit)

NineFiles ==
  {"package.json", "vite.config.js", "tailwind.config.js", "postcss.config.js",
   ".gitignore", "index.html", "src/main.jsx", "src/App.jsx",
   "src/styles/index.css"}

Written == DOMAIN projFiles

SuccessPrinted ==
  \/ <<"Success! Your project is ready!", <<>>>> \in printed
  \/ <<"Project created successfully!", <<>>>> \in printed

----------------------------------------------------------------------------
(* C1: whenever the entered project name resolves to a directory that      *)
(* already exists, the tool asks for the project name again: it neither    *)
(* goes on to scaffolding nor terminates.                                  *)
C1_RepromptOnCollision ==
  [][ ( /\ pc \in {"askName", "askAll"}
        /\ lastPrompt'.question = "projectName"
        /\ lastPrompt'.error = ""
        /\ projectPath' \in fsDirs )
      => pc' = "askName" ]_vars

(* C2: the project-name question accepts the value it validates if and     *)
(* only if that value is a non-empty string of lowercase letters, digits,  *)
(* hyphens and underscores; any other value is answered with the error     *)
(* text and does not become answers.projectName.                           *)
C2_NameAcceptedIffPlain ==
  /\ lastPrompt.question = "projectName" =>
       /\ (lastPrompt.error = "") <=> IsPlainName(lastPrompt.input)
       /\ lastPrompt.error = "" =>
            Asked("projectName") /\ answers.projectName = lastPrompt.input
       /\ lastPrompt.error # "" =>
            /\ lastPrompt.error = NameErrorText
            /\ Asked("projectName") => answers.projectName # lastPrompt.input
  /\ Asked("projectName") => IsPlainName(answers.projectName)

\* a name whose first character is allowed and whose second is a slash has
\* been rejected
C2_Witness ==
  lastPrompt = [question |-> "projectName", input |-> <<"a", "/">>,
                error |-> NameErrorText]

C4_PackageJson ==
  "package.json" \in Written =>
    LET pkg == projFiles["package.json"].value
    IN /\ (\E d \in pkg.dependencies : d[1] = "react-router-dom")
            <=> answers.useRouter
       /\ pkg.dependencies \ {<<"react-router-dom", "^6.26.0">>} =
            {<<"react", "^18.3.1">>, <<"react-dom", "^18.3.1">>}
       /\ pkg.devDependencies =
            {<<"@vitejs/plugin-react", "^4.3.1">>,
             <<"autoprefixer", "^10.4.20">>, <<"postcss", "^8.4.41">>,
             <<"tailwindcss", "^3.4.10">>, <<"vite", "^5.4.1">>}
       /\ pkg.name = answers.projectName
       /\ pkg.name = lastPrompt.input
       /\ IsPlainName(pkg.name)

C4_Witness ==
  /\ "package.json" \in Written
  /\ ~answers.useRouter
  /\ cliArg = <<"A">>
  /\ answers.projectName = <<"z", "9">>

(* C5: the steps run in a fixed order, each one starting only after the    *)
(* previous one has finished: directories, package.json, the four config   *)
(* files, the four source files, npm install (when chosen), the git        *)
(* commands, the success message.  npm install never starts before         *)
(* package.json is written and git add never starts before all nine files  *)
(* are written.                                                            *)
StepOutput(step) ==
  CASE step = "packageJson" -> {"package.json"}
    [] step = "configFiles" -> Range(ConfigFiles)
    [] step = "sourceFiles" -> Range(SourceFiles)
    [] OTHER -> {}

Begun(step) == spinner[step] # "none"
Finished(step) == spinner[step] = "succeed" /\ StepOutput(step) \subseteq Written

C5_FixedOrder ==
  /\ Begun("packageJson") => spinner["structure"] = "succeed"
  /\ Begun("configFiles") => Finished("packageJson")
  /\ Begun("sourceFiles") => Finished("configFiles")
  /\ Begun("install") => Finished("sourceFiles")
  /\ Begun("git") =>
       /\ Finished("sourceFiles")
       /\ spinner["install"] = (IF answers.installNow THEN "succeed" ELSE "none")
  /\ pc \in {"packageJson", "configFiles", "sourceFiles", "install", "git",
             "success", "done"} =>
       \A d \in Range(StructureDirs) : d \in projDirs
  /\ pc \in {"install", "git", "success", "done"} =>
       inflight = {} /\ Written = NineFiles
  /\ cmds # <<>> => Written = NineFiles /\ inflight = {}
  /\ Ran("npm install") => "package.json" \in Written
  /\ Ran("git add .") => Written = NineFiles
  /\ Ran("git init") /\ answers.installNow => cmds[1] = [cmd |-> "npm install", ok |-> TRUE]
  /\ SuccessPrinted =>
       /\ Finished("sourceFiles")
       /\ version \in LoopVersions => spinner["git"] \in {"succeed", "warn"}

C5_Witness ==
  /\ pc = "done"
  /\ version = "part_001"
  /\ Len(cmds) = 4
  /\ cmds[3] = [cmd |-> "git add .", ok |-> TRUE]
  /\ SuccessPrinted

(* C6: npm install is run only if the user answered yes to "Install        *)
(* dependencies now?", and once the pipeline is past the install step it   *)
(* has been run if and only if the answer was yes; after a no the printed  *)
(* next steps include "npm install", after a yes they do not.              *)
C6_InstallIffChosen ==
  /\ Ran("npm install") => Asked("installNow") /\ answers.installNow
  /\ (pc \in {"git", "success", "done"} /\ version \in LoopVersions) =>
       (Ran("npm install") <=> answers.installNow)
  /\ (pc = "done" /\ version \in LoopVersions) =>
       (<<"npm install", <<>>>> \in printed <=> ~answers.installNow)
  /\ (<<"npm install", <<>>>> \in printed) => ~Ran("npm install")

C6_Witness ==
  /\ pc = "done"
  /\ version = "part_000"
  /\ ~answers.installNow
  /\ <<"npm install", <<>>>> \in printed
  /\ Ran("git init")

(* C7 as stated: whether the version-control commands are run depends on a *)
(* choice of the user, so at the end of a run of a variant that has        *)
(* initializeGit some confirm answer tells whether git was run.            *)
ConfirmQuestions == {"useRouter", "installNow"} \cap DOMAIN answers

C7_GitIsUsersChoice ==
  (pc = "done" /\ version \in LoopVersions) =>
    \E q \in ConfirmQuestions : Ran("git init") <=> answers[q]

(* C7 as amended: initializing the repository is not a choice of the user. *)
(* No question asks about it; in part_000 and part_001 every run that      *)
(* reaches the success message has run git init, whatever was answered,    *)
(* and index.js runs no version-control command at all.                    *)
C7_GitAlwaysAttempted ==
  /\ DOMAIN answers \subseteq
       {"projectLocation", "projectName", "projectPath", "useRouter",
        "installNow"}
  /\ (pc \in {"success", "done"} /\ version \in LoopVersions) =>
       Ran("git init")
  /\ version = "index.js" => GitRun = <<>>

C7_Witness ==
  /\ pc = "done"
  /\ version \in LoopVersions
  /\ ~answers.useRouter
  /\ ~answers.installNow
  /\ GitRun # <<>>
  /\ \A i \in 1..Len(GitRun) : GitRun[i].ok

(* C8: the project is created inside the location entered at "Where       *)
(* should we create this project?": the project path is that location,     *)
(* backslashes turned into "/", joined with the project name, and a        *)
(* location that does not exist is never accepted.                         *)
EnteredLocation ==
  IF Asked("projectLocation") THEN answers.projectLocation
  ELSE answers.projectPath

C8_ProjectInEnteredLocation ==
  projectPath # <<>> =>
    /\ projectPath =
         ReplaceBackslashes(EnteredLocation) \o <<"/">> \o answers.projectName
    /\ ReplaceBackslashes(EnteredLocation) \in fsDirs

(* C9: when a creation step or the install step fails the tool removes     *)
(* nothing: no step ever takes away a directory or a file that exists, so  *)
(* what was created before the failure is there when the run ends.         *)
C9_NothingRemoved ==
  [][ /\ fsDirs \subseteq fsDirs'
      /\ projDirs \subseteq projDirs'
      /\ Written \subseteq DOMAIN projFiles' ]_vars

C9_Witness ==
  /\ pc = "failed"
  /\ thrown
  /\ spinner["install"] = "fail"
  /\ projectPath \in fsDirs
  /\ "src/styles" \in projDirs
  /\ Written = NineFiles

(* C10: a failure of a git command is not fatal: the remaining git         *)
(* commands are skipped, a warning is shown, no error leaves               *)
(* initializeGit and the run goes on to the success message.  The          *)
(* commands are attempted only in the order init, add, commit, each after  *)
(* the previous one succeeded.                                             *)
C10_GitFailureTolerated ==
  /\ Len(GitRun) <= Len(GitCommands)
  /\ \A i \in 1..Len(GitRun) :
       /\ GitRun[i].cmd = GitCommands[i]
       /\ i < Len(GitRun) => GitRun[i].ok
  /\ (\E i \in 1..Len(GitRun) : ~GitRun[i].ok) <=> spinner["git"] = "warn"
  /\ Begun("git") /\ spinner["git"] # "warn" =>
       Len(GitRun) = Len(GitCommands) /\ spinner["git"] = "succeed"
  /\ Begun("git") => ~thrown /\ pc \in {"success", "done"}
  /\ (pc = "done" /\ version \in LoopVersions) =>
       /\ Begun("git")
       /\ <<"Success! Your project is ready!", <<>>>> \in printed

C10_Witness ==
  /\ pc = "done"
  /\ spinner["git"] = "warn"
  /\ Len(GitRun) = 2
  /\ ~GitRun[2].ok
  /\ SuccessPrinted

(* C11: a failure in createProjectStructure, createPackageJson,            *)
(* createConfigFiles, createSourceFiles or installDependencies aborts the  *)
(* run: the error leaves the action, no later pipeline step is started     *)
(* (no git command after a failed install) and the success message is      *)
(* never printed in that run.                                              *)
AbortingSteps ==
  <<"structure", "packageJson", "configFiles", "sourceFiles", "install">>

StepFailed(step) ==
  \/ spinner[step] = "fail"
  \/ version = "index.js" /\ spinner[step] = "started" /\ pc = "failed"

InstallFailed == \E i \in 1..Len(cmds) : cmds[i].cmd = "npm install" /\ ~cmds[i].ok

C11_FailureAborts ==
  /\ [] ( /\ \A i \in 1..Len(AbortingSteps) :
               StepFailed(AbortingSteps[i]) =>
                 /\ thrown
                 /\ pc = "failed"
                 /\ ~SuccessPrinted
                 /\ \A j \in (i + 1)..Len(AbortingSteps) :
                      ~Begun(AbortingSteps[j])
                 /\ ~Begun("git")
          /\ thrown <=> (\E i \in 1..Len(AbortingSteps) :
                           StepFailed(AbortingSteps[i]))
          /\ thrown <=> pc = "failed"
          /\ InstallFailed => spinner["install"] = "fail" /\ GitRun = <<>> )
  /\ [][ pc = "failed" =>
           /\ pc' = "failed"
           /\ spinner' = spinner
           /\ cmds' = cmds
           /\ printed' = printed
           /\ projDirs' = projDirs ]_vars

C11_Witness ==
  /\ pc = "failed"
  /\ thrown
  /\ InstallFailed
  /\ Written = NineFiles
  /\ ~SuccessPrinted

(* C12: in the asynchronous variant the four config-file writes, and      *)
(* likewise the four source-file writes, are started together and may      *)
(* complete in any order; under every interleaving each write targets a    *)
(* directory createProjectStructure has finished creating, the step        *)
(* reports success only after all four writes have completed, and the next *)
(* pipeline step does not start while one of them is pending.              *)
WriteStep(f) ==
  IF f \in Range(ConfigFiles) THEN "configFiles" ELSE "sourceFiles"

NextOf(step) == IF step = "configFiles" THEN "sourceFiles" ELSE "install"

C12_ConcurrentWrites ==
  /\ [] ( version = "part_001" =>
           /\ \A f \in inflight :
                /\ spinner["structure"] = "succeed"
                /\ ParentDir(f) \in projDirs
                /\ projectPath \in fsDirs
                /\ spinner[WriteStep(f)] # "succeed"
                /\ pc \in {WriteStep(f), "failed"}
                /\ ~Begun(NextOf(WriteStep(f)))
                /\ cmds = <<>>
           /\ \A step \in {"configFiles", "sourceFiles"} :
                spinner[step] = "succeed" => StepOutput(step) \subseteq Written )
  /\ [][ \A step \in {"configFiles", "sourceFiles"} :
           (version = "part_001" /\ spinner[step] = "none"
              /\ spinner'[step] = "started")
           => inflight' = StepOutput(step) ]_vars

\* the write started last has completed while the one started first is
\* still pending
C12_Witness ==
  /\ version = "part_001"
  /\ pc = "sourceFiles"
  /\ inflight = {"index.html", "src/App.jsx"}
  /\ "src/styles/index.css" \in Written
  /\ "src/main.jsx" \in Written

(* C13: the project-name loop ends exactly when an answered name passes    *)
(* validation and its target path does not exist.  After a collision the   *)
(* same question is asked again with the same default, and nothing counts  *)
(* the attempts: giving the colliding answer again leaves the program in   *)
(* the very same state, so the loop ends only if the user eventually gives *)
(* a name that does not collide.                                           *)
Collided ==
  /\ pc = "askName"
  /\ lastPrompt.question = "projectName"
  /\ lastPrompt.error = ""
  /\ projectPath \in fsDirs

\* the colliding answer given once more
SameAnswerAgain ==
  /\ AskName(NameInputs)
  /\ lastPrompt'.input = lastPrompt.input

C13_NameLoop ==
  /\ [] ( /\ Collided => ENABLED (SameAnswerAgain /\ UNCHANGED vars)
          /\ Collided => CollisionLine(answers.projectName) \in printed
          /\ (version \in LoopVersions /\ pc \notin {"askLocation", "askName"}) =>
               /\ IsPlainName(answers.projectName)
               /\ projectPath =
                    ReplaceBackslashes(answers.projectLocation) \o <<"/">>
                      \o answers.projectName )
  /\ [][ pc = "askName" =>
           /\ pc' \in {"askName", "askOthers"}
           /\ cliArg' = cliArg
           /\ fsDirs' = fsDirs
           /\ pc' = "askOthers" <=>
                /\ lastPrompt'.question = "projectName"
                /\ IsPlainName(lastPrompt'.input)
                /\ answers'.projectName = lastPrompt'.input
                /\ projectPath' \notin fsDirs ]_vars

\* the default name was accepted and collides
C13_Witness ==
  /\ Collided
  /\ cliArg = <<>>
  /\ lastPrompt.input = DefaultAppName
  /\ answers.projectName = DefaultAppName

(* C14: the router artifacts of a generated project are consistent: the    *)
(* src/pages directory, the react-router-dom entry of package.json and the *)
(* BrowserRouter import and wrapper of src/main.jsx are all present when   *)
(* useRouter is true and all absent when it is false; main.jsx never       *)
(* imports react-router-dom when package.json does not declare it.         *)
HasLine(f, line) ==
  \E i \in 1..Len(projFiles[f].lines) : projFiles[f].lines[i] = line

PagesDir == "src/pages" \in projDirs
RouterDeclared ==
  \E d \in projFiles["package.json"].value.dependencies :
    d[1] = "react-router-dom"
RouterImported ==
  HasLine("src/main.jsx", "import { BrowserRouter } from 'react-router-dom'")
RouterWrapped ==
  /\ HasLine("src/main.jsx", "    <BrowserRouter>")
  /\ HasLine("src/main.jsx", "    </BrowserRouter>")
AppUnwrapped == HasLine("src/main.jsx", "    <App />")

C14_RouterConsistent ==
  /\ spinner["structure"] = "succeed" => (PagesDir <=> answers.useRouter)
  /\ "src/main.jsx" \in Written =>
       /\ "package.json" \in Written
       /\ RouterImported => RouterDeclared
       /\ RouterImported <=> answers.useRouter
       /\ RouterWrapped <=> answers.useRouter
       /\ AppUnwrapped <=> ~answers.useRouter
       /\ RouterDeclared <=> answers.useRouter
       /\ PagesDir <=> RouterDeclared

C14_Witness ==
  /\ pc = "done"
  /\ version = "part_000"
  /\ answers.useRouter
  /\ RouterImported
  /\ RouterWrapped
  /\ RouterDeclared
  /\ PagesDir

(* C15: the tool never writes into a directory it did not create itself:  *)
(* when another process has created the project directory, or files in     *)
(* it, after the existence check, the tool creates no directory and writes *)
(* no file inside it and commits nothing from it.                          *)
C15_NeverWritesIntoForeignDir ==
  otherFiles # {} =>
    /\ projDirs \subseteq {"."}
    /\ Written = {}
    /\ ~Ran("git add .")

====
